---- MODULE Spec2Model ----
(***************************************************************************)
(* Resource-aware worker sizing of the Stagehand test runner.              *)
(*                                                                         *)
(* Three variants of the same calculator live in the repository:           *)
(*   RO  tests/stagehand/utils/resource-optimizer.ts                       *)
(*   CC  the container-aware vitest config (cgroup probe, ceiling 3)       *)
(*   HC  vitest.config.ts, the host config (free memory and CPUs, max 10) *)
(*                                                                         *)
(* Text is a sequence of one-character strings, so that trim(), the        *)
(* comparison with "max" and parseInt() are computed on the characters.    *)
(* A parsed integer is kept as its decimal digits (sign, magnitude), so    *)
(* that byte counts up to the 2^63 sentinel fit; a JavaScript number that  *)
(* takes part in the worker arithmetic is a record [nan, v].  Doubles are  *)
(* exact on every integer the model handles (all are below 2^53 or are     *)
(* the sentinel 2^63 - 4096 itself), division by 1024 is exact, and        *)
(* floor(x * 0.8 / k) on doubles equals floor(8x / 10k) for integer x.     *)
(***************************************************************************)
EXTENDS Integers, Sequences, FiniteSets, TLC

\* ---------------------------------------------------------------- bounds
MaxOverride == 4
MaxCpus == 4
MaxMemSteps == 3

\* ------------------------------------------------------- program constants
RO_MEMORY_PER_WORKER_MB == 250
RO_MIN_WORKERS == 1
RO_MAX_WORKERS == 3
RO_HOST_CAP_MB == 2048
CC_MEMORY_PER_WORKER_MB == 250
CC_MIN_WORKERS == 1
CC_MAX_WORKERS == 3
CC_DEFAULT_MB == 1024
HC_MEMORY_PER_WORKER_MB == 200
HC_MIN_WORKERS == 1
HC_MAX_WORKERS == 10
\* RESOURCE_THRESHOLD = 0.8 in all three files, as the fraction 8/10
THRESHOLD_NUM == 8
THRESHOLD_DEN == 10
\* x / 1024 / 1024
BYTES_PER_MB == 1048576
\* 9223372036854771712, the cgroup v1 "unlimited" value, as decimal digits
UNLIMITED == <<9,2,2,3,3,7,2,0,3,6,8,5,4,7,7,1,7,1,2>>

\* ------------------------------------------------------ JavaScript numbers
Num(x) == [nan |-> FALSE, v |-> x]
NaN == [nan |-> TRUE, v |-> 0]

MathMin(a, b) ==
    IF a.nan \/ b.nan THEN NaN ELSE IF a.v <= b.v THEN a ELSE b

MathMax(a, b) ==
    IF a.nan \/ b.nan THEN NaN ELSE IF a.v >= b.v THEN a ELSE b

\* Math.floor(x * RESOURCE_THRESHOLD / per)
FloorThreshold(x, per) ==
    IF x.nan THEN NaN ELSE Num((x.v * THRESHOLD_NUM) \div (THRESHOLD_DEN * per))

\* ------------------------------------------------------------------- text
DigitChars == <<"0","1","2","3","4","5","6","7","8","9">>
WhiteSpace == {" ", "\n", "\t", "\r"}

IsDigit(c) == \E i \in 1..10 : DigitChars[i] = c
DigitVal(c) == (CHOOSE i \in 1..10 : DigitChars[i] = c) - 1

RECURSIVE TrimStart(_)
TrimStart(s) ==
    IF s # <<>> /\ Head(s) \in WhiteSpace THEN TrimStart(Tail(s)) ELSE s

RECURSIVE TrimEnd(_)
TrimEnd(s) ==
    IF s # <<>> /\ s[Len(s)] \in WhiteSpace
    THEN TrimEnd(SubSeq(s, 1, Len(s) - 1)) ELSE s

\* String.prototype.trim
Trim(s) == TrimEnd(TrimStart(s))

\* the longest prefix of decimal digits, as digit values
RECURSIVE DigitPrefix(_)
DigitPrefix(s) ==
    IF s # <<>> /\ IsDigit(Head(s))
    THEN <<DigitVal(Head(s))>> \o DigitPrefix(Tail(s)) ELSE <<>>

RECURSIVE StripZeros(_)
StripZeros(d) ==
    IF Len(d) > 1 /\ Head(d) = 0 THEN StripZeros(Tail(d)) ELSE d

\* parseInt(s, 10): leading white space, an optional sign, then the longest
\* run of digits; NaN when there is no digit.  Trailing text is ignored.
ParseInt(s) ==
    LET t == TrimStart(s)
        signed == t # <<>> /\ Head(t) \in {"+", "-"}
        neg == t # <<>> /\ Head(t) = "-"
        body == IF signed THEN Tail(t) ELSE t
        digits == DigitPrefix(body)
    IN  IF digits = <<>>
        THEN [nan |-> TRUE, neg |-> FALSE, mag |-> <<0>>]
        ELSE [nan |-> FALSE, neg |-> neg, mag |-> StripZeros(digits)]

\* decimal digits of a natural number, and the numeral of an integer
RECURSIVE ToDigits(_)
ToDigits(n) == IF n < 10 THEN <<n>> ELSE ToDigits(n \div 10) \o <<n % 10>>

RECURSIVE DigitText(_)
DigitText(d) ==
    IF d = <<>> THEN <<>> ELSE <<DigitChars[Head(d) + 1]>> \o DigitText(Tail(d))

Numeral(n) == IF n < 0 THEN <<"-">> \o DigitText(ToDigits(-n)) ELSE DigitText(ToDigits(n))

\* ------------------------------------------------- parsed-integer helpers
IsZeroMag(d) == d = <<0>>

\* a < b on digit sequences without leading zeros
RECURSIVE MagLess(_, _)
MagLess(a, b) ==
    IF Len(a) # Len(b) THEN Len(a) < Len(b)
    ELSE IF a = <<>> THEN FALSE
    ELSE IF Head(a) # Head(b) THEN Head(a) < Head(b)
    ELSE MagLess(Tail(a), Tail(b))

\* p < m for a parsed integer p and a positive literal m given by its digits
LessThanLiteral(p, m) ==
    IF p.nan THEN FALSE
    ELSE IF p.neg /\ ~IsZeroMag(p.mag) THEN TRUE
    ELSE MagLess(p.mag, m)

\* isNaN(p), p > 0
IsNaN(p) == p.nan
GreaterThanZero(p) == ~p.nan /\ ~p.neg /\ ~IsZeroMag(p.mag)

\* the value of a parsed integer as a number of the worker arithmetic
RECURSIVE MagValue(_, _)
MagValue(d, acc) ==
    IF d = <<>> THEN acc ELSE MagValue(Tail(d), acc * 10 + Head(d))

ToNumber(p) ==
    IF p.nan THEN NaN
    ELSE IF p.neg THEN Num(0 - MagValue(p.mag, 0)) ELSE Num(MagValue(p.mag, 0))

\* long division of a digit sequence by BYTES_PER_MB: <<quotient, remainder>>
RECURSIVE DivModMB(_, _, _)
DivModMB(d, q, r) ==
    IF d = <<>> THEN <<q, r>>
    ELSE LET cur == r * 10 + Head(d)
         IN  DivModMB(Tail(d), q * 10 + (cur \div BYTES_PER_MB), cur % BYTES_PER_MB)

\* Math.round(p / 1024 / 1024); Math.round rounds a half towards +Infinity
RoundMB(p) ==
    IF p.nan THEN NaN
    ELSE LET qr == DivModMB(p.mag, 0, 0)
         IN  IF p.neg
             THEN Num(0 - (qr[1] + (IF 2 * qr[2] > BYTES_PER_MB THEN 1 ELSE 0)))
             ELSE Num(qr[1] + (IF 2 * qr[2] >= BYTES_PER_MB THEN 1 ELSE 0))

\* an operating-system byte count (os.totalmem(), os.freemem()) as a parsed integer
Bytes(d) == [nan |-> FALSE, neg |-> FALSE, mag |-> d]

\* digits of d * m for a small factor m (least significant digit first inside)
RECURSIVE MulRev(_, _, _)
MulRev(r, m, carry) ==
    IF r = <<>> THEN (IF carry = 0 THEN <<>> ELSE MulRev(<<0>>, 1, carry))
    ELSE LET cur == Head(r) * m + carry
         IN  <<cur % 10>> \o MulRev(Tail(r), m, cur \div 10)

RECURSIVE Reverse(_)
Reverse(s) == IF s = <<>> THEN <<>> ELSE Reverse(Tail(s)) \o <<Head(s)>>

\* the byte count of kib KiB, as decimal digits
KiBToBytes(kib) == StripZeros(Reverse(MulRev(Reverse(ToDigits(kib)), 1024, 0)))

\* ------------------------------------------------------------ environment
\* a file of the cgroup file system: existsSync(), readFileSync()
Absent == [exists |-> FALSE, readable |-> FALSE, content |-> <<>>]
Unreadable == [exists |-> TRUE, readable |-> FALSE, content |-> <<>>]
FileOf(text) == [exists |-> TRUE, readable |-> TRUE, content |-> text]
\* the kernel writes one line
LimitFile(kib) == FileOf(DigitText(KiBToBytes(kib)) \o <<"\n">>)

MaxText == <<"m","a","x">>
GarbageText == <<"a","b","c">>

\* process.env.VITEST_MAX_WORKERS
Unset == [set |-> FALSE, str |-> <<>>]
EnvOf(text) == [set |-> TRUE, str |-> text]

VARIABLES cgroupV2, cgroupV1, totalmem, freemem, cpus, envWorkers,
          pc, roWorkers, roLog, ccWorkers, ccLog, hcWorkers, hcLog,
          slWorkers, slForced

env == <<cgroupV2, cgroupV1, totalmem, freemem, cpus, envWorkers>>
vars == <<cgroupV2, cgroupV1, totalmem, freemem, cpus, envWorkers,
          pc, roWorkers, roLog, ccWorkers, ccLog, hcWorkers, hcLog,
          slWorkers, slForced>>

\* ------------------------------------------------ cgroup probe (RO and CC)
\* The two try-blocks are the same text in resource-optimizer.ts and in the
\* container-aware config.  An outcome is "return" (with the value), "next"
\* (fall out of the if) or "throw" (readFileSync failed; caught by catch).
\* variant: the value is parsed without the comparison with "max"
CgroupV2Block_NoMax(f) ==
    IF ~f.exists THEN [kind |-> "next", num |-> NaN]
    ELSE IF ~f.readable THEN [kind |-> "throw", num |-> NaN]
    ELSE [kind |-> "return", num |-> RoundMB(ParseInt(Trim(f.content)))]

CgroupV2Block(f) ==
    IF ~f.exists THEN [kind |-> "next", num |-> NaN]
    ELSE IF ~f.readable THEN [kind |-> "throw", num |-> NaN]
    ELSE LET value == Trim(f.content)
         IN  IF value # MaxText
             THEN [kind |-> "return", num |-> RoundMB(ParseInt(value))]
             ELSE [kind |-> "next", num |-> NaN]

CgroupV1Block(f) ==
    IF ~f.exists THEN [kind |-> "next", num |-> NaN]
    ELSE IF ~f.readable THEN [kind |-> "throw", num |-> NaN]
    ELSE LET value == ParseInt(Trim(f.content))
         IN  IF LessThanLiteral(value, UNLIMITED)
             THEN [kind |-> "return", num |-> RoundMB(value)]
             ELSE [kind |-> "next", num |-> NaN]

\* variant: cgroup v1 is probed before cgroup v2
TryCgroups_V1First(v2, v1) ==
    LET b2 == CgroupV2Block(v2)
        b1 == CgroupV1Block(v1)
    IN  IF b1.kind = "return" THEN b1
        ELSE IF b1.kind = "throw" THEN [kind |-> "next", num |-> NaN]
        ELSE IF b2.kind = "return" THEN b2
        ELSE [kind |-> "next", num |-> NaN]

\* the try/catch: the first block that returns decides; a throw or falling
\* out of both blocks reaches the statement after the catch
TryCgroups(v2, v1) ==
    LET b2 == CgroupV2Block(v2)
        b1 == CgroupV1Block(v1)
    IN  IF b2.kind = "return" THEN b2
        ELSE IF b2.kind = "throw" THEN [kind |-> "next", num |-> NaN]
        ELSE IF b1.kind = "return" THEN b1
        ELSE [kind |-> "next", num |-> NaN]

\* ------------------------------------------------- resource-optimizer.ts
\* number | null
RO_getContainerMemoryMB(v2, v1) ==
    LET t == TryCgroups(v2, v1)
    IN  IF t.kind = "return" THEN [null |-> FALSE, num |-> t.num]
        ELSE [null |-> TRUE, num |-> NaN]

getResourceInfo(v2, v1, total) ==
    LET hostMemoryMB == RoundMB(Bytes(total))
        containerMemory == RO_getContainerMemoryMB(v2, v1)
        isContainer == ~containerMemory.null
        effectiveMemoryMB == IF containerMemory.null
                             THEN MathMin(hostMemoryMB, Num(RO_HOST_CAP_MB))
                             ELSE containerMemory.num
        workers == FloorThreshold(effectiveMemoryMB, RO_MEMORY_PER_WORKER_MB)
        recommendedWorkers ==
            MathMax(Num(RO_MIN_WORKERS), MathMin(Num(RO_MAX_WORKERS), workers))
    IN  [containerMemoryMB |-> IF containerMemory.null THEN effectiveMemoryMB
                               ELSE containerMemory.num,
         hostMemoryMB |-> hostMemoryMB,
         isContainer |-> isContainer,
         recommendedWorkers |-> recommendedWorkers]

\* if (envWorkers) { parsed = parseInt(...); if (!isNaN(parsed) && parsed > 0)
OverrideTaken(e) ==
    /\ e.set
    /\ e.str # <<>>
    /\ ~IsNaN(ParseInt(e.str))
    /\ GreaterThanZero(ParseInt(e.str))

\* variant: the override is returned without Math.min
getOptimalWorkerCount_NoClamp(e, v2, v1, total) ==
    IF OverrideTaken(e)
    THEN ToNumber(ParseInt(e.str))
    ELSE getResourceInfo(v2, v1, total).recommendedWorkers

getOptimalWorkerCount(e, v2, v1, total) ==
    IF OverrideTaken(e)
    THEN MathMin(ToNumber(ParseInt(e.str)), Num(RO_MAX_WORKERS))
    ELSE getResourceInfo(v2, v1, total).recommendedWorkers

\* the line logResourceInfo prints
logResourceInfo(v2, v1, total) ==
    LET info == getResourceInfo(v2, v1, total)
    IN  [line |-> IF info.isContainer THEN "Container" ELSE "Host",
         memoryMB |-> info.containerMemoryMB,
         cpus |-> 0,
         workers |-> info.recommendedWorkers]

\* ------------------------------------------ container-aware vitest config
CC_getContainerMemoryMB(v2, v1) ==
    LET t == TryCgroups(v2, v1)
    IN  IF t.kind = "return" THEN t.num ELSE Num(CC_DEFAULT_MB)

\* variant: the count is capped at MAX_WORKERS but not raised to MIN_WORKERS
CC_calculateOptimalWorkers_NoMinimum(e, v2, v1) ==
    IF OverrideTaken(e)
    THEN LET parsed == ToNumber(ParseInt(e.str))
         IN  [ret |-> MathMin(parsed, Num(CC_MAX_WORKERS)),
              log |-> <<[line |-> "Using manual override", memoryMB |-> Num(0),
                         cpus |-> 0, workers |-> parsed]>>]
    ELSE LET containerMemoryMB == CC_getContainerMemoryMB(v2, v1)
             workers == MathMin(Num(CC_MAX_WORKERS),
                            FloorThreshold(containerMemoryMB, CC_MEMORY_PER_WORKER_MB))
         IN  [ret |-> workers,
              log |-> <<[line |-> "Container memory", memoryMB |-> containerMemoryMB,
                         cpus |-> 0, workers |-> workers]>>]

\* the returned count and the line printed on the way
CC_calculateOptimalWorkers(e, v2, v1) ==
    IF OverrideTaken(e)
    THEN LET parsed == ToNumber(ParseInt(e.str))
         IN  [ret |-> MathMin(parsed, Num(CC_MAX_WORKERS)),
              log |-> <<[line |-> "Using manual override", memoryMB |-> Num(0),
                         cpus |-> 0, workers |-> parsed]>>]
    ELSE LET containerMemoryMB == CC_getContainerMemoryMB(v2, v1)
             workers == MathMax(Num(CC_MIN_WORKERS), MathMin(Num(CC_MAX_WORKERS),
                            FloorThreshold(containerMemoryMB, CC_MEMORY_PER_WORKER_MB)))
         IN  [ret |-> workers,
              log |-> <<[line |-> "Container memory", memoryMB |-> containerMemoryMB,
                         cpus |-> 0, workers |-> workers]>>]

\* ------------------------------------------------------- vitest.config.ts
\* variant: the CPU candidate is left out of the minimum
HC_calculateOptimalWorkers_MemoryOnly(e, free, cpuCores) ==
    IF OverrideTaken(e)
    THEN [ret |-> MathMin(ToNumber(ParseInt(e.str)), Num(HC_MAX_WORKERS)),
          log |-> <<>>]
    ELSE LET freeMemoryMB == RoundMB(Bytes(free))
             memoryBasedWorkers == FloorThreshold(freeMemoryMB, HC_MEMORY_PER_WORKER_MB)
             workers == MathMax(Num(HC_MIN_WORKERS), MathMin(Num(HC_MAX_WORKERS),
                            memoryBasedWorkers))
         IN  [ret |-> workers,
              log |-> <<[line |-> "Resource optimization", memoryMB |-> freeMemoryMB,
                         cpus |-> cpuCores, workers |-> workers]>>]

HC_calculateOptimalWorkers(e, free, cpuCores) ==
    IF OverrideTaken(e)
    THEN [ret |-> MathMin(ToNumber(ParseInt(e.str)), Num(HC_MAX_WORKERS)),
          log |-> <<>>]
    ELSE LET freeMemoryMB == RoundMB(Bytes(free))
             memoryBasedWorkers == FloorThreshold(freeMemoryMB, HC_MEMORY_PER_WORKER_MB)
             cpuBasedWorkers == FloorThreshold(Num(cpuCores), 1)
             workers == MathMax(Num(HC_MIN_WORKERS), MathMin(Num(HC_MAX_WORKERS),
                            MathMin(memoryBasedWorkers, cpuBasedWorkers)))
         IN  [ret |-> workers,
              log |-> <<[line |-> "Resource optimization", memoryMB |-> freeMemoryMB,
                         cpus |-> cpuCores, workers |-> workers]>>]

\* ------------------------------------- session-limited variant (spec 4.2)
\* The algorithm of the worker calculator in priority order: a valid manual
\* override first, then forcedSequential, then the automatic calculation of
\* the active policy (here the host policy).
\* variant: forcedSequential is not consulted
SL_calculateWorkers_IgnoresFlag(e, forcedSequential, free, cpuCores) ==
    IF OverrideTaken(e)
    THEN MathMin(ToNumber(ParseInt(e.str)), Num(HC_MAX_WORKERS))
    ELSE HC_calculateOptimalWorkers(Unset, free, cpuCores).ret

SL_calculateWorkers(e, forcedSequential, free, cpuCores) ==
    IF OverrideTaken(e)
    THEN MathMin(ToNumber(ParseInt(e.str)), Num(HC_MAX_WORKERS))
    ELSE IF forcedSequential THEN Num(1)
    ELSE HC_calculateOptimalWorkers(Unset, free, cpuCores).ret

\* ------------------------------------------------------------ input sets
\* finite cgroup limits in KiB: a grid of 312.5 MB steps (the worker count
\* changes at 312.5, 625 and 937.5 MB), 624.5 MB, which rounds up to 625 MB,
\* and the 1024 MB pod
V2LimitsKiB == {k * 320000 : k \in 0..MaxMemSteps} \cup {639488, 1048576}
V1LimitsKiB == {262144, 1048576}


\* os.totalmem(): 1 GiB and 8 GiB
TotalKiB == {1048576, 8388608}
\* os.freemem(): a grid of 250 MB steps, 499.5 MB, 4000 MB
FreeKiB == {k * 256000 : k \in 0..MaxMemSteps} \cup {511488, 4096000}
CpuCounts == 0..MaxCpus \cup {16}

\* the files and byte counts of the input sets, by their size in KiB
LimitFileOf == [k \in V2LimitsKiB \cup V1LimitsKiB |-> LimitFile(k)]
BytesOf == [k \in TotalKiB \cup FreeKiB |-> KiBToBytes(k)]
MaxFile == FileOf(MaxText \o <<"\n">>)
UnlimitedFile == FileOf(DigitText(UNLIMITED) \o <<"\n">>)

V2Files == {Absent, Unreadable, MaxFile, FileOf(<<>>), FileOf(GarbageText)}
           \cup {LimitFileOf[k] : k \in V2LimitsKiB}
V1Files == {Absent, Unreadable, FileOf(<<>>), UnlimitedFile}
           \cup {LimitFileOf[k] : k \in V1LimitsKiB}

Overrides == {Unset, EnvOf(<<>>), EnvOf(GarbageText), EnvOf(<<"3","a","b","c">>)}
             \cup {EnvOf(Numeral(n)) : n \in (0 - 1)..MaxOverride}
             \cup {EnvOf(Numeral(HC_MAX_WORKERS + 2))}

\* ------------------------------------------------------------ the machine
Init ==
    /\ cgroupV2 \in V2Files
    /\ cgroupV1 \in V1Files
    /\ totalmem \in {BytesOf[k] : k \in TotalKiB}
    /\ freemem \in {BytesOf[k] : k \in FreeKiB}
    /\ cpus \in CpuCounts
    /\ envWorkers \in Overrides
    /\ pc = "start"
    /\ roWorkers = <<>>
    /\ roLog = <<>>
    /\ ccWorkers = <<>>
    /\ ccLog = <<>>
    /\ hcWorkers = <<>>
    /\ hcLog = <<>>
    /\ slWorkers = <<>>
    /\ slForced = FALSE

\* a caller asks resource-optimizer.ts for the worker count
CallGetOptimalWorkerCount ==
    /\ pc \in {"start", "optimizer"}
    /\ roWorkers = <<>>
    /\ roWorkers' = <<getOptimalWorkerCount(envWorkers, cgroupV2, cgroupV1, totalmem)>>
    /\ pc' = "optimizer"
    /\ UNCHANGED <<env, roLog, ccWorkers, ccLog, hcWorkers, hcLog, slWorkers, slForced>>

\* a caller asks resource-optimizer.ts to print the diagnostic line
CallLogResourceInfo ==
    /\ pc \in {"start", "optimizer"}
    /\ roLog = <<>>
    /\ roLog' = <<logResourceInfo(cgroupV2, cgroupV1, totalmem)>>
    /\ pc' = "optimizer"
    /\ UNCHANGED <<env, roWorkers, ccWorkers, ccLog, hcWorkers, hcLog, slWorkers, slForced>>

\* const OPTIMAL_WORKERS = calculateOptimalWorkers() of the container-aware config
LoadContainerConfig ==
    /\ pc = "start"
    /\ LET r == CC_calculateOptimalWorkers(envWorkers, cgroupV2, cgroupV1)
       IN  /\ ccWorkers' = <<r.ret>>
           /\ ccLog' = r.log
    /\ pc' = "done"
    /\ UNCHANGED <<env, roWorkers, roLog, hcWorkers, hcLog, slWorkers, slForced>>

\* const OPTIMAL_WORKERS = calculateOptimalWorkers() of vitest.config.ts
LoadHostConfig ==
    /\ pc = "start"
    /\ LET r == HC_calculateOptimalWorkers(envWorkers, freemem, cpus)
       IN  /\ hcWorkers' = <<r.ret>>
           /\ hcLog' = r.log
    /\ pc' = "done"
    /\ UNCHANGED <<env, roWorkers, roLog, ccWorkers, ccLog, slWorkers, slForced>>

\* the calculator of the specification, with or without forcedSequential
LoadSessionLimitedConfig ==
    /\ pc = "start"
    /\ \E forced \in BOOLEAN :
          /\ slForced' = forced
          /\ slWorkers' = <<SL_calculateWorkers(envWorkers, forced, freemem, cpus)>>
    /\ pc' = "done"
    /\ UNCHANGED <<env, roWorkers, roLog, ccWorkers, ccLog, hcWorkers, hcLog>>

Next ==
    \/ CallGetOptimalWorkerCount
    \/ CallLogResourceInfo
    \/ LoadContainerConfig
    \/ LoadHostConfig
    \/ LoadSessionLimitedConfig

Spec == Init /\ [][Next]_vars

TypeOK ==
    /\ pc \in {"start", "optimizer", "done"}
    /\ Len(roWorkers) <= 1 /\ Len(ccWorkers) <= 1 /\ Len(hcWorkers) <= 1
    /\ Len(roLog) <= 1 /\ Len(ccLog) <= 1 /\ Len(hcLog) <= 1

\* ------------------------------------------------------------ properties
Min(a, b) == IF a <= b THEN a ELSE b
Max(a, b) == IF a >= b THEN a ELSE b
Clamp(x, lo, hi) == Max(lo, Min(hi, x))

\* kib KiB in whole MB, rounded to the nearest, a half up
NearestMB(kib) == (2 * kib + 1024) \div 2048

\* a number that is an integer of lo..hi
InRange(x, lo, hi) == ~x.nan /\ x.v >= lo /\ x.v <= hi

\* override values that are not a positive integer, "3abc" left aside
NotPositive == {Unset, EnvOf(<<>>), EnvOf(GarbageText),
                EnvOf(Numeral(0)), EnvOf(Numeral(0 - 1))}

\* the limit a cgroup probe finds at k KiB: in v2, or in v1 behind a v2
\* file that is absent or says max
LimitDetected(k) ==
    \/ cgroupV2 = LimitFileOf[k]
    \/ /\ cgroupV2 \in {Absent, MaxFile}
       /\ cgroupV1 = LimitFileOf[k]

\* C1: every worker count a calculator returns or recommends is an integer
\* between MIN_WORKERS and MAX_WORKERS of its variant, for every state of
\* the cgroup files, the memory figures, the CPU count and the override.
C1_WorkerCountInRange ==
    /\ \A i \in 1..Len(roWorkers) : InRange(roWorkers[i], RO_MIN_WORKERS, RO_MAX_WORKERS)
    /\ \A i \in 1..Len(roLog) : InRange(roLog[i].workers, RO_MIN_WORKERS, RO_MAX_WORKERS)
    /\ \A i \in 1..Len(ccWorkers) : InRange(ccWorkers[i], CC_MIN_WORKERS, CC_MAX_WORKERS)
    /\ \A i \in 1..Len(hcWorkers) : InRange(hcWorkers[i], HC_MIN_WORKERS, HC_MAX_WORKERS)

\* C2: an override that is the numeral of a positive integer n makes every
\* calculator return min(n, MAX_WORKERS), whatever the resources are.
C2_OverrideHonoured ==
    \A n \in 1..(HC_MAX_WORKERS + 2) :
        envWorkers = EnvOf(Numeral(n)) =>
            /\ roWorkers # <<>> => roWorkers[1] = Num(Min(n, RO_MAX_WORKERS))
            /\ ccWorkers # <<>> => ccWorkers[1] = Num(Min(n, CC_MAX_WORKERS))
            /\ hcWorkers # <<>> => hcWorkers[1] = Num(Min(n, HC_MAX_WORKERS))

C2_Witness ==
    /\ envWorkers = EnvOf(Numeral(MaxOverride))
    /\ cgroupV2 = LimitFileOf[0]
    /\ ccWorkers = <<Num(CC_MAX_WORKERS)>>

\* C3: an override of 0, a negative number or a string that is not wholly a
\* decimal integer ("abc", "3abc", the empty string) gives the count that
\* no override gives, for every resource snapshot.
C3_InvalidOverrideIgnored ==
    envWorkers \in NotPositive \cup {EnvOf(<<"3","a","b","c">>)} =>
        /\ roWorkers # <<>> =>
              roWorkers[1] = getOptimalWorkerCount(Unset, cgroupV2, cgroupV1, totalmem)
        /\ ccWorkers # <<>> =>
              ccWorkers[1] = CC_calculateOptimalWorkers(Unset, cgroupV2, cgroupV1).ret
        /\ hcWorkers # <<>> =>
              hcWorkers[1] = HC_calculateOptimalWorkers(Unset, freemem, cpus).ret

\* C4: a cgroup v2 file with a finite value decides the container memory:
\* the limit reported is that value in MB and the environment is reported
\* as a container, whatever cgroup v1 and the host memory are.
C4_V2Precedence ==
    \A k \in V2LimitsKiB :
        ((roLog # <<>> \/ ccLog # <<>>) /\ cgroupV2 = LimitFileOf[k]) =>
            /\ roLog # <<>> =>
                  /\ roLog[1].line = "Container"
                  /\ roLog[1].memoryMB = Num(NearestMB(k))
            /\ (ccLog # <<>> /\ ccLog[1].line = "Container memory") =>
                  ccLog[1].memoryMB = Num(NearestMB(k))

C4_Witness ==
    /\ cgroupV2 = LimitFileOf[320000]
    /\ cgroupV1 = LimitFileOf[1048576]
    /\ roLog # <<>>
    /\ roLog[1].line = "Container"
    /\ roLog[1].memoryMB = Num(313)

\* C5: an unlimited sentinel counts as an absent file: behind a v2 file that
\* says max the v1 file is consulted and its finite value used; a v1 file
\* holding 9223372036854771712 asserts no container limit, and the memory is
\* the fallback (the capped host memory; 1024 MB in the container config).
C5_SentinelIsAbsence ==
    /\ cgroupV2 = MaxFile =>
          /\ roLog # <<>> => roLog[1] = logResourceInfo(Absent, cgroupV1, totalmem)
          /\ \A k \in V1LimitsKiB :
                (cgroupV1 = LimitFileOf[k] /\ roLog # <<>>) =>
                    /\ roLog[1].line = "Container"
                    /\ roLog[1].memoryMB = Num(NearestMB(k))
          /\ (ccLog # <<>> /\ ccLog[1].line = "Container memory") =>
                ccLog[1].memoryMB = CC_getContainerMemoryMB(Absent, cgroupV1)
    /\ (/\ cgroupV1 = UnlimitedFile
        /\ cgroupV2 \in {Absent, MaxFile}) =>
          /\ roLog # <<>> =>
                /\ roLog[1].line = "Host"
                /\ \A t \in TotalKiB :
                      totalmem = BytesOf[t] =>
                          roLog[1].memoryMB = Num(Min(NearestMB(t), RO_HOST_CAP_MB))
          /\ (ccLog # <<>> /\ ccLog[1].line = "Container memory") =>
                ccLog[1].memoryMB = Num(CC_DEFAULT_MB)

C5_Witness ==
    /\ cgroupV2 = MaxFile
    /\ cgroupV1 = LimitFileOf[262144]
    /\ roLog # <<>>
    /\ roLog[1].line = "Container"
    /\ roLog[1].memoryMB = Num(256)

\* C6: a probe that fails (file unreadable, content empty or not a number)
\* gives the detection result that an absent file gives: the next tier is
\* still consulted and no malformed value becomes the container limit.
C6_FailureIsAbsence ==
    /\ cgroupV2 \in {Unreadable, FileOf(<<>>), FileOf(GarbageText)} =>
          /\ roLog # <<>> => roLog[1] = logResourceInfo(Absent, cgroupV1, totalmem)
          /\ (ccLog # <<>> /\ ccLog[1].line = "Container memory") =>
                ccLog[1].memoryMB = CC_getContainerMemoryMB(Absent, cgroupV1)
    /\ cgroupV1 \in {Unreadable, FileOf(<<>>)} =>
          /\ roLog # <<>> => roLog[1] = logResourceInfo(cgroupV2, Absent, totalmem)
          /\ (ccLog # <<>> /\ ccLog[1].line = "Container memory") =>
                ccLog[1].memoryMB = CC_getContainerMemoryMB(cgroupV2, Absent)

\* C7 as stated: in host mode without a valid override the count is
\* clamp(min(floor(freeBytes * 0.8 / 200 MB), floor(cpus * 0.8)), 1, 10).
C7_HostFormulaOnBytes ==
    \A f \in FreeKiB :
        (/\ hcWorkers # <<>>
         /\ envWorkers \in NotPositive
         /\ freemem = BytesOf[f]) =>
            hcWorkers[1] =
                Num(Clamp(Min((f * THRESHOLD_NUM)
                                  \div (THRESHOLD_DEN * HC_MEMORY_PER_WORKER_MB * 1024),
                              (cpus * THRESHOLD_NUM) \div THRESHOLD_DEN),
                          HC_MIN_WORKERS, HC_MAX_WORKERS))

\* C7 amended: the same formula on the free memory rounded to whole MB:
\* clamp(min(floor(freeMB * 0.8 / 200), floor(cpus * 0.8)), 1, 10) with
\* freeMB = round(freeBytes / 1024 / 1024).
C7_HostFormulaOnRoundedMB ==
    \A f \in FreeKiB :
        (/\ hcWorkers # <<>>
         /\ envWorkers \in NotPositive
         /\ freemem = BytesOf[f]) =>
            hcWorkers[1] =
                Num(Clamp(Min((NearestMB(f) * THRESHOLD_NUM)
                                  \div (THRESHOLD_DEN * HC_MEMORY_PER_WORKER_MB),
                              (cpus * THRESHOLD_NUM) \div THRESHOLD_DEN),
                          HC_MIN_WORKERS, HC_MAX_WORKERS))

\* 4000 MB free and 4 CPUs give 3
C7_Witness ==
    /\ freemem = BytesOf[4096000]
    /\ cpus = 4
    /\ envWorkers = Unset
    /\ hcWorkers = <<Num(3)>>

\* C8 as stated: with a finite container limit of L bytes and no valid
\* override the container-aware calculators return
\* clamp(floor(L * 0.8 / 250 MB), 1, 3), whatever CPU count and host memory.
C8_ContainerFormulaOnBytes ==
    \A k \in V2LimitsKiB \cup V1LimitsKiB :
        (/\ (ccWorkers # <<>> \/ roWorkers # <<>>)
         /\ envWorkers \in NotPositive
         /\ LimitDetected(k)) =>
            LET w == Num(Clamp((k * THRESHOLD_NUM)
                                   \div (THRESHOLD_DEN * CC_MEMORY_PER_WORKER_MB * 1024),
                               CC_MIN_WORKERS, CC_MAX_WORKERS))
            IN  /\ ccWorkers # <<>> => ccWorkers[1] = w
                /\ roWorkers # <<>> => roWorkers[1] = w

\* C8 amended: the same formula on the limit rounded to whole MB:
\* clamp(floor(limitMB * 0.8 / 250), 1, 3), limitMB = round(L / 1024 / 1024).
C8_ContainerFormulaOnRoundedMB ==
    \A k \in V2LimitsKiB \cup V1LimitsKiB :
        (/\ (ccWorkers # <<>> \/ roWorkers # <<>>)
         /\ envWorkers \in NotPositive
         /\ LimitDetected(k)) =>
            LET w == Num(Clamp((NearestMB(k) * THRESHOLD_NUM)
                                   \div (THRESHOLD_DEN * CC_MEMORY_PER_WORKER_MB),
                               CC_MIN_WORKERS, CC_MAX_WORKERS))
            IN  /\ ccWorkers # <<>> => ccWorkers[1] = w
                /\ roWorkers # <<>> => roWorkers[1] = w

\* a 1024 MB limit gives 3, on a 16-CPU host
C8_Witness ==
    /\ cgroupV2 = LimitFileOf[1048576]
    /\ envWorkers = Unset
    /\ cpus = 16
    /\ ccWorkers = <<Num(3)>>

C10_LogMatchesResult ==
    /\ (roLog # <<>> /\ roWorkers # <<>>) => roLog[1].workers = roWorkers[1]
    /\ \A i \in 1..Len(ccLog) : ccLog[i].workers = ccWorkers[1]
    /\ \A i \in 1..Len(hcLog) : hcLog[i].workers = hcWorkers[1]

====
